---- MODULE Spec2Model ----
(***************************************************************************)
(* Date range slicer (PBIDateTimePicker).                                  *)
(*                                                                         *)
(* The repository holds three implementations of the same widget:          *)
(*   "Visual"      src/src/visual.ts with DateRangeCalculator              *)
(*                 (unnamed/part_005), FilterManager (unnamed/part_004)    *)
(*                 and UIManager (src/src/services/UIManager.ts);          *)
(*   "DirectQuery" unnamed/part_008: DateTimePickerVisual, FilterService   *)
(*                 with the filterManager / applyJsonFilter strategy;      *)
(*   "Models"      unnamed/part_009: DateTimePickerVisual, FilterService   *)
(*                 built on powerbi-models.                                *)
(*                                                                         *)
(* Time.  A Date is an instant counted in ticks, TicksPerDay ticks to a    *)
(* day, day 0 being 1900-01-01 UTC.  Local civil time is the instant       *)
(* shifted by tz ticks; the last tick of a day stands for 23:59:59.999     *)
(* and the first for 00:00:00.000.  NaN is the Invalid Date.               *)
(***************************************************************************)
EXTENDS Integers, Sequences, FiniteSets, TLC

VARIABLES
    tz,        \* local time minus UTC, in ticks (the machine's time zone)
    calc,      \* SpecCalc: the last pure function applied, its inputs and output
    variant,   \* which implementation of the widget is running
    clock,     \* the current moment, new Date()
    host,      \* the capabilities the host object exposes
    visual,    \* Visual: formattingSettings, isInitialized, currentDateRange
    fm,        \* FilterManager: dateColumnTarget, dateColumnName, tableQualifiedName
    ui,        \* UIManager: the range selector, the custom date inputs, the apply button
    dtp,       \* DateTimePickerVisual: dateColumn, currentRange, the date inputs, timers
    fs,        \* FilterService: dateColumn
    lastUpdate, \* the payload of the most recent host update
    obs        \* what the last callback did: host calls, messages, log entries

calcVars == <<tz, calc>>
widgetVars == <<variant, clock, host, visual, fm, ui, dtp, fs, lastUpdate, obs>>
vars == <<tz, calc, variant, clock, host, visual, fm, ui, dtp, fs, lastUpdate, obs>>

-----------------------------------------------------------------------------
(* Bounds of the model *)

TicksPerDay == 3
MaxTzOffset == 1

(* Calendar days used as inputs, counted from 1900-01-01 *)
Day_2024_12_24 == 45648
Day_2024_12_31 == 45655
Day_2025_03_01 == 45715
Day_2025_03_10 == 45724

NaN == -1          \* new Date(NaN), new Date("")
Undefined == -2    \* an omitted optional argument

TZs == (0 - MaxTzOffset)..MaxTzOffset

-----------------------------------------------------------------------------
(* JavaScript Date, in local civil time *)

IsDate(t) == t \notin {NaN, Undefined}

\* getFullYear/getMonth/getDate: the local calendar day of an instant
LocalDay(t) == IF IsDate(t) THEN (t + tz) \div TicksPerDay ELSE NaN

\* getHours..getMilliseconds: the local time of day of an instant
LocalTod(t) == IF IsDate(t) THEN (t + tz) % TicksPerDay ELSE NaN

\* new Date(y, m, d): local midnight of a calendar day
LocalMidnight(day) == IF day = NaN THEN NaN ELSE day * TicksPerDay - tz

\* date.setHours(0, 0, 0, 0)
SetHoursStartOfDay(t) == IF IsDate(t) THEN LocalDay(t) * TicksPerDay - tz ELSE NaN

\* date.setHours(23, 59, 59, 999)
SetHoursEndOfDay(t) ==
    IF IsDate(t) THEN LocalDay(t) * TicksPerDay + (TicksPerDay - 1) - tz ELSE NaN

\* a <= b on Dates: any comparison with the Invalid Date is false
DateLe(a, b) == IsDate(a) /\ IsDate(b) /\ a <= b
DateGt(a, b) == IsDate(a) /\ IsDate(b) /\ a > b

-----------------------------------------------------------------------------
(* settings: DateRangeType, PredefinedRange *)

Last7Days == "last7days"
Last30Days == "last30days"
Last90Days == "last90days"
Custom == "custom"
DateRangeType == {Last7Days, Last30Days, Last90Days, Custom}

LATEST_7_DAYS == 7
LATEST_30_DAYS == 30
LATEST_90_DAYS == 90
CUSTOM == 0
PredefinedRange == {LATEST_7_DAYS, LATEST_30_DAYS, LATEST_90_DAYS, CUSTOM}

-----------------------------------------------------------------------------
(* DateRangeCalculator (unnamed/part_005) *)

\* result.setDate(result.getDate() - days)
subtractDays(date, days) == IF IsDate(date) THEN date - days * TicksPerDay ELSE NaN

\* calculateDateRange without setHours(0, 0, 0, 0) on the start: the start
\* keeps the anchor's time of day.
calculateDateRange_NoStartOfDay(rangeType, now) ==
    LET today == SetHoursEndOfDay(now)
        startDate == CASE rangeType = Last7Days -> subtractDays(today, 7)
                       [] rangeType = Last30Days -> subtractDays(today, 30)
                       [] rangeType = Last90Days -> subtractDays(today, 90)
                       [] OTHER -> today
    IN  [startDate |-> startDate, endDate |-> today, type |-> rangeType]

\* calculateDateRange(rangeType); now is the value of new Date()
calculateDateRange(rangeType, now) ==
    LET today == SetHoursEndOfDay(now)
        startDate == CASE rangeType = Last7Days -> subtractDays(today, 7)
                       [] rangeType = Last30Days -> subtractDays(today, 30)
                       [] rangeType = Last90Days -> subtractDays(today, 90)
                       [] OTHER -> today
    IN  [startDate |-> SetHoursStartOfDay(startDate),
         endDate   |-> today,
         type      |-> rangeType]

\* createCustomRange that puts a reversed pair in order.
createCustomRange_Swapping(startDate, endDate) ==
    LET lo == IF DateGt(startDate, endDate) THEN endDate ELSE startDate
        hi == IF DateGt(startDate, endDate) THEN startDate ELSE endDate
    IN  [startDate |-> SetHoursStartOfDay(lo),
         endDate   |-> SetHoursEndOfDay(hi),
         type      |-> Custom]

createCustomRange(startDate, endDate) ==
    [startDate |-> SetHoursStartOfDay(startDate),
     endDate   |-> SetHoursEndOfDay(endDate),
     type      |-> Custom]

\* isValidDateRange that accepts every range
isValidDateRange_Always(dateRange) == TRUE

\* !dateRange.startDate is false of every Date object, the Invalid Date included
isValidDateRange(dateRange) == DateLe(dateRange.startDate, dateRange.endDate)

-----------------------------------------------------------------------------
(* DateUtils (unnamed/part_008; unnamed/part_009 repeats getDateRange,      *)
(* isValidDateRange and formatDate)                                        *)

\* getDateRange(range, maxDate); now is the value of new Date()
DateUtils_getDateRange(range, maxDate, now) ==
    LET endDate == IF maxDate = Undefined THEN now ELSE maxDate
    IN  [startDate |-> IF range # CUSTOM THEN subtractDays(endDate, range) ELSE endDate,
         endDate   |-> endDate]

DateUtils_isValidDateRange(startDate, endDate) == DateLe(startDate, endDate)

\* formatDate(date): the local calendar day, as YYYY-MM-DD
DateUtils_formatDate(date) == LocalDay(date)

-----------------------------------------------------------------------------
(* Inputs of the widget model *)

MaxTicks == 1
MaxTimers == 1
MaxThrows == 1

\* the host calls of one callback that throw
ThrowSets(calls) == {t \in SUBSET calls : Cardinality(t) <= MaxThrows}

\* the entries the user picks in the range selector, the quick-select buttons
SelectedRangeTypes == {Last7Days, Last30Days, Custom}
SelectedRanges == {LATEST_7_DAYS, LATEST_30_DAYS, CUSTOM}

\* the clock starts at the last instant of 2025-03-10 UTC
ClockStart == Day_2025_03_10 * TicksPerDay + TicksPerDay - 1

\* the values the user types into a date input
CustomValues == {Day_2025_03_01, Day_2025_03_10, NaN}

\* the ranges handed to Visual.setDateRange
ProgrammaticRanges ==
    {[startDate |-> a, endDate |-> Day_2025_03_01 * TicksPerDay + 1, type |-> "custom"] :
        a \in {Day_2025_03_01 * TicksPerDay, Day_2025_03_10 * TicksPerDay, NaN}}

ClearCalls == {"filterManager.clear", "applyJsonFilter", "applyJsonFilter.advanced",
               "createSelectionManager", "selectionManager.clear"}

-----------------------------------------------------------------------------
(* Strings.  A string is the sequence of its characters; a run of letters  *)
(* that holds no delimiter is written as one character.                    *)

EmptyString == <<>>
Str(word) == <<word>>

\* s.indexOf(ch) + 1, 0 when ch is not in s
IndexOf(s, ch) ==
    IF \E i \in 1..Len(s) : s[i] = ch
    THEN CHOOSE i \in 1..Len(s) : s[i] = ch /\ \A j \in 1..(i - 1) : s[j] # ch
    ELSE 0

Includes(s, ch) == IndexOf(s, ch) > 0

\* s.split(ch)[0]
SplitFirst(s, ch) ==
    IF Includes(s, ch) THEN SubSeq(s, 1, IndexOf(s, ch) - 1) ELSE s

\* s.split(ch)[1], for a string that holds ch: the text between the first ch
\* and the second
SplitSecond(s, ch) ==
    LET rest == SubSeq(s, IndexOf(s, ch) + 1, Len(s))
    IN  SplitFirst(rest, ch)

\* a || b on strings: the empty string is falsy
OrElse(a, b) == IF a # EmptyString THEN a ELSE b

\* the position of the "[" that /^(.+)\[(.+)\]$/ matches at, 0 when it does not
BracketAt(s) ==
    LET cand == {k \in 2..(Len(s) - 2) : s[k] = "[" /\ s[Len(s)] = "]"}
    IN  IF cand = {} THEN 0 ELSE CHOOSE k \in cand : \A j \in cand : j <= k

-----------------------------------------------------------------------------
(* The host: its update payloads and its capabilities *)

ImplVisual == "Visual"
ImplDirectQuery == "DirectQuery"
ImplModels == "Models"
Variants == {ImplVisual, ImplDirectQuery, ImplModels}

\* A metadata column.  type: the declared value type; roles: the data roles
\* it fills; expr: its query expression (present, with a source entity or
\* without one); values: the sampled values the host delivers with it.
ColOrderDate ==
    [displayName |-> Str("OrderDate"),
     queryName   |-> <<"Sales", ".", "OrderDate">>,
     type        |-> "dateTime",
     roles       |-> {"category"},
     expr        |-> [present |-> TRUE, source |-> TRUE, entity |-> Str("Sales")],
     values      |-> <<Day_2024_12_24 * TicksPerDay + 1, Day_2024_12_31 * TicksPerDay + 1>>]

ColShipDate ==
    [displayName |-> Str("ShipDate"),
     queryName   |-> <<"Orders", "[", "ShipDate", "]">>,
     type        |-> "dateTime",
     roles       |-> {},
     expr        |-> [present |-> TRUE, source |-> FALSE, entity |-> EmptyString],
     values      |-> <<>>]

ColRegion ==
    [displayName |-> Str("Region"),
     queryName   |-> <<"Geo", ".", "Region">>,
     type        |-> "text",
     roles       |-> {"category"},
     expr        |-> [present |-> TRUE, source |-> TRUE, entity |-> Str("Geo")],
     values      |-> <<NaN>>]

\* An update payload: options.dataViews[0] (or none), its metadata columns,
\* whether they come as categories (dataView.categorical) or as table rows,
\* and the defaultRange of the formatting settings it carries.
Payload(dv, cat, cols, dr) ==
    [dataView |-> dv, categorical |-> cat, columns |-> cols, defaultRange |-> dr]

\* Visual reads metadata.columns and takes the first dateTime column,
\* unnamed/part_008 takes categories[0] whatever its type, unnamed/part_009
\* searches the categories by role and type.
ColumnLists(impl) ==
    IF impl = ImplVisual
    THEN {<<ColOrderDate>>, <<ColShipDate>>, <<ColRegion>>}
    ELSE IF impl = ImplDirectQuery
    THEN {<<>>, <<ColOrderDate>>, <<ColRegion>>}
    ELSE {<<>>, <<ColShipDate>>, <<ColRegion, ColOrderDate>>}

DefaultRanges(impl) ==
    IF impl = ImplVisual THEN {Last7Days, Custom} ELSE {Last7Days}

\* The payloads of the model.  Only Visual reads the formatting settings.
Payloads(impl) ==
    {Payload(FALSE, FALSE, <<>>, Last7Days)}
    \cup {Payload(TRUE, TRUE, cols, dr) :
             cols \in ColumnLists(impl), dr \in DefaultRanges(impl)}
    \cup (IF impl = ImplVisual THEN {}
          ELSE {Payload(TRUE, FALSE, <<ColRegion, ColOrderDate>>, Last7Days)})

\* what an update payload binds the widget to
Binding(options) ==
    [seen |-> TRUE, dataView |-> options.dataView,
     categorical |-> options.categorical, columns |-> options.columns]

NoUpdate == [seen |-> FALSE, dataView |-> FALSE, categorical |-> FALSE, columns |-> <<>>]

\* what the host object exposes: host.filterManager (with applyFilter and
\* clear), host.applyJsonFilter, host.createSelectionManager
Hosts == [filterManager : BOOLEAN, applyJsonFilter : BOOLEAN,
          createSelectionManager : BOOLEAN]

\* Only unnamed/part_008 reads host.filterManager and
\* host.createSelectionManager; the other two meet a host without them.
HostsOf(impl) ==
    IF impl = ImplDirectQuery THEN Hosts
    ELSE {h \in Hosts : ~h.filterManager /\ ~h.createSelectionManager}

\* the host calls of a callback that may throw
ApplyCalls == {"createSelectionManager", "filterManager.applyFilter", "applyJsonFilter"}

\* a call made to the host and whether it threw
HostCall(api, filter, scope, action, threw) ==
    [api |-> api, filter |-> filter, scope |-> scope, action |-> action, threw |-> threw]

\* a message shown to the user by MessageService
Msg(kind, text) == [kind |-> kind, text |-> text]

\* an entry added to the DebugLogger
Log(level, text) == [level |-> level, text |-> text]

\* a line written to the browser console by the code itself
Console(level, text) == [level |-> level, text |-> text]

NoObs == [op |-> "none", hostCalls |-> <<>>, messages |-> <<>>, logs |-> <<>>,
          console |-> <<>>]

Obs(op, calls, msgs, logs, cons) ==
    [op |-> op, hostCalls |-> calls, messages |-> msgs, logs |-> logs,
     console |-> cons]

\* powerbi.FilterAction
FilterAction_merge == 0
FilterAction_remove == 1

\* a serialized date: calendar day, time of day, zone designator
DateValue(day, tod, zone) == [day |-> day, tod |-> tod, zone |-> zone]

\* date.toISOString(): the UTC calendar day and time of day, with "Z"
toISOString(date) == DateValue(date \div TicksPerDay, date % TicksPerDay, "Z")

\* the filter object handed to the host
Filter(schema, table, column, startValue, endValue, filterType) ==
    [schema |-> schema,
     target |-> [table |-> table, column |-> column],
     logicalOperator |-> "And",
     conditions |-> <<[operator |-> "GreaterThanOrEqual", value |-> startValue],
                      [operator |-> "LessThanOrEqual", value |-> endValue]>>,
     filterType |-> filterType]

NullFilter == [schema |-> "null"]

-----------------------------------------------------------------------------
(* FilterManager (unnamed/part_004) *)

\* null and "" are both falsy and the code tests these fields for truthiness
\* only, so the null name is the empty string
NoExpr == [present |-> FALSE, source |-> FALSE, entity |-> EmptyString]

InitFilterManager ==
    [dateColumnTarget |-> NoExpr, dateColumnName |-> EmptyString,
     tableQualifiedName |-> EmptyString]

\* columns.find(column => column.type && column.type.dateTime): its index, or 0
FindDateTimeColumn(columns) ==
    IF \E i \in 1..Len(columns) : columns[i].type = "dateTime"
    THEN CHOOSE i \in 1..Len(columns) :
             /\ columns[i].type = "dateTime"
             /\ \A j \in 1..(i - 1) : columns[j].type # "dateTime"
    ELSE 0

\* hasDateColumn(dataView): the value returned and the fields afterwards
FilterManager_hasDateColumn(f, dataView) ==
    LET i == FindDateTimeColumn(dataView.columns)
    IN  IF i # 0 /\ dataView.columns[i].expr.present
        THEN LET dateColumn == dataView.columns[i]
             IN  [result |-> TRUE,
                  fm |-> [dateColumnTarget |-> dateColumn.expr,
                          dateColumnName |-> OrElse(dateColumn.displayName, Str("Date")),
                          tableQualifiedName |->
                              IF dateColumn.expr.source
                              THEN OrElse(dateColumn.expr.entity, Str("Table"))
                              ELSE f.tableQualifiedName]]
        ELSE [result |-> FALSE, fm |-> f]

\* the private isValidDateRange of FilterManager
FilterManager_isValidDateRange(dateRange) ==
    /\ dateRange.type # "null"
    /\ DateLe(dateRange.startDate, dateRange.endDate)

\* applyDateFilter keeping the start value of the filter of the preceding
\* Apply, when there is one, in the filter it builds
FilterManager_applyDateFilter_Merging(f, dateRange, h, throws) ==
    IF \/ ~f.dateColumnTarget.present
       \/ f.dateColumnName = EmptyString
       \/ f.tableQualifiedName = EmptyString
    THEN [calls |-> <<>>,
          console |-> <<Console("warn", "No date column available for filtering")>>]
    ELSE IF ~FilterManager_isValidDateRange(dateRange)
    THEN [calls |-> <<>>,
          console |-> <<Console("error", "Invalid date range provided for filtering")>>]
    ELSE LET earlier == SelectSeq(obs.hostCalls, LAMBDA c : c.filter # NullFilter)
             filter == Filter("https://powerbi.com/product/schema#advanced",
                              f.tableQualifiedName, f.dateColumnName,
                              IF earlier # <<>>
                              THEN earlier[1].filter.conditions[1].value
                              ELSE toISOString(dateRange.startDate),
                              toISOString(dateRange.endDate), Undefined)
         IN  IF ~h.applyJsonFilter
             THEN [calls |-> <<>>,
                   console |-> <<Console("error", "Error applying date filter:")>>]
             ELSE IF "applyJsonFilter" \in throws
             THEN [calls |-> <<HostCall("applyJsonFilter", filter, "general",
                                        FilterAction_merge, TRUE)>>,
                   console |-> <<Console("error", "Error applying date filter:")>>]
             ELSE [calls |-> <<HostCall("applyJsonFilter", filter, "general",
                                        FilterAction_merge, FALSE)>>,
                   console |-> <<Console("log", "Applied date filter:")>>]

\* applyDateFilter(dateRange, host): the host calls made and the console
\* lines written.  throws: the host calls that throw when made.
FilterManager_applyDateFilter(f, dateRange, h, throws) ==
    IF \/ ~f.dateColumnTarget.present
       \/ f.dateColumnName = EmptyString
       \/ f.tableQualifiedName = EmptyString
    THEN [calls |-> <<>>,
          console |-> <<Console("warn", "No date column available for filtering")>>]
    ELSE IF ~FilterManager_isValidDateRange(dateRange)
    THEN [calls |-> <<>>,
          console |-> <<Console("error", "Invalid date range provided for filtering")>>]
    ELSE LET filter == Filter("https://powerbi.com/product/schema#advanced",
                              f.tableQualifiedName, f.dateColumnName,
                              toISOString(dateRange.startDate),
                              toISOString(dateRange.endDate), Undefined)
         IN  IF ~h.applyJsonFilter
             THEN \* host.applyJsonFilter is not a function: a TypeError, caught
                  [calls |-> <<>>,
                   console |-> <<Console("error", "Error applying date filter:")>>]
             ELSE IF "applyJsonFilter" \in throws
             THEN [calls |-> <<HostCall("applyJsonFilter", filter, "general",
                                        FilterAction_merge, TRUE)>>,
                   console |-> <<Console("error", "Error applying date filter:")>>]
             ELSE [calls |-> <<HostCall("applyJsonFilter", filter, "general",
                                        FilterAction_merge, FALSE)>>,
                   console |-> <<Console("log", "Applied date filter:")>>]

\* clearFilters(host)
FilterManager_clearFilters(h, throws) ==
    IF ~h.applyJsonFilter
    THEN [calls |-> <<>>,
          console |-> <<Console("error", "Error clearing filters:")>>]
    ELSE IF "applyJsonFilter" \in throws
    THEN [calls |-> <<HostCall("applyJsonFilter", NullFilter, "general",
                               FilterAction_remove, TRUE)>>,
          console |-> <<Console("error", "Error clearing filters:")>>]
    ELSE [calls |-> <<HostCall("applyJsonFilter", NullFilter, "general",
                               FilterAction_remove, FALSE)>>,
          console |-> <<Console("log", "Cleared all date filters")>>]

-----------------------------------------------------------------------------
(* UIManager (src/src/services/UIManager.ts) *)

EmptyValue == NaN   \* the value "" of a date input

NullRange == [startDate |-> NaN, endDate |-> NaN, type |-> "null"]

InitUI ==
    [created |-> FALSE, rangeSelector |-> Last7Days,
     customStartDate |-> EmptyValue, customEndDate |-> EmptyValue,
     applyDisabled |-> FALSE]

\* new Date("YYYY-MM-DD"): midnight UTC of the day; new Date("") is invalid
NewDateFromString(value) == IF value = EmptyValue THEN NaN ELSE value * TicksPerDay

\* updateDateRangeDisplay(dateRange): returns silently before createUI
UIManager_updateDateRangeDisplay(u) ==
    IF u.created THEN <<Log("INFO", "Updated date range display")>> ELSE <<>>

\* handleRangeSelectionChange(): shows or hides the custom inputs
UIManager_handleRangeSelectionChange(u) ==
    IF ~u.created THEN <<>>
    ELSE IF u.rangeSelector = Custom
    THEN <<Log("INFO", "Switched to custom date range mode")>>
    ELSE <<Log("INFO", "Switched to predefined range")>>

\* setSelectedRangeType(rangeType): the UI afterwards
UIManager_setSelectedRangeType(u, rangeType) ==
    IF u.created THEN [u EXCEPT !.rangeSelector = rangeType] ELSE u

\* validateCustomDates(): the UI afterwards and the log entries
UIManager_validateCustomDates(u) ==
    IF u.customStartDate = EmptyValue \/ u.customEndDate = EmptyValue
    THEN [ui |-> u, logs |-> <<>>]
    ELSE IF DateGt(NewDateFromString(u.customStartDate),
                   NewDateFromString(u.customEndDate))
    THEN [ui |-> [u EXCEPT !.applyDisabled = TRUE],
          logs |-> <<Log("WARNING",
                         "Invalid custom date range: start date is after end date")>>]
    ELSE [ui |-> [u EXCEPT !.applyDisabled = FALSE],
          logs |-> <<Log("INFO", "Custom date range validated successfully")>>]

-----------------------------------------------------------------------------
(* Visual (src/src/visual.ts) *)

InitVisual ==
    [formattingSettings |-> "undefined", isInitialized |-> FALSE,
     currentDateRange |-> NullRange]

\* updateFormattingSettings(options): the defaultRange of the settings model
Visual_updateFormattingSettings(options) ==
    IF options.dataView THEN options.defaultRange ELSE Last7Days

\* setDefaultDateRange that leaves the current range as it is
Visual_setDefaultDateRange_Keeping(v, u, now) ==
    [visual |-> v, ui |-> u, logs |-> <<>>]

\* setDefaultDateRange(): the Visual and the UI afterwards, the log entries
Visual_setDefaultDateRange(v, u, now) ==
    IF v.formattingSettings = "undefined"
    THEN [visual |-> v, ui |-> u, logs |-> <<>>]
    ELSE LET defaultRangeType == v.formattingSettings
             dateRange == calculateDateRange(defaultRangeType, now)
             u2 == UIManager_setSelectedRangeType(u, defaultRangeType)
         IN  [visual |-> [v EXCEPT !.currentDateRange = dateRange],
              ui |-> u2,
              logs |-> UIManager_updateDateRangeDisplay(u)
                       \o UIManager_handleRangeSelectionChange(u2)
                       \o <<Log("INFO", "Default date range set")>>]

\* handleApplyFilter(dateRange)
Visual_handleApplyFilter(v, u, f, h, dateRange, throws) ==
    IF ~isValidDateRange(dateRange)
    THEN [visual |-> v, calls |-> <<>>,
          logs |-> <<Log("ERROR", "Invalid date range provided for filter application")>>,
          console |-> <<>>]
    ELSE LET applied == FilterManager_applyDateFilter(f, dateRange, h, throws)
         IN  [visual |-> [v EXCEPT !.currentDateRange = dateRange],
              calls |-> applied.calls,
              logs |-> UIManager_updateDateRangeDisplay(u)
                       \o <<Log("INFO", "Filter applied")>>,
              console |-> applied.console]

\* update(options)
VisualUpdate ==
    /\ variant = ImplVisual
    /\ \E options \in Payloads(ImplVisual) :
        LET settings == Visual_updateFormattingSettings(options)
            found == IF options.dataView
                     THEN FilterManager_hasDateColumn(fm, options)
                     ELSE [result |-> FALSE, fm |-> fm]
            u1 == [ui EXCEPT !.created = TRUE]
            v1 == [visual EXCEPT !.formattingSettings = settings,
                                 !.isInitialized = TRUE]
            def == IF visual.currentDateRange = NullRange
                   THEN Visual_setDefaultDateRange(v1, u1, clock)
                   ELSE [visual |-> v1, ui |-> u1, logs |-> <<>>]
        IN  /\ fm' = found.fm
            /\ visual' = def.visual
            /\ ui' = def.ui
            /\ lastUpdate' = Binding(options)
            /\ obs' = Obs("update", <<>>, <<>>,
                   <<Log("INFO", "Visual update started"),
                     Log("INFO", "Formatting settings updated")>>
                   \o (IF ~options.dataView THEN <<>>
                       ELSE IF found.result
                       THEN <<Log("INFO", "Date column found and configured for filtering")>>
                       ELSE <<Log("WARNING", "No date column found in data view - filtering may not work")>>)
                   \o (IF visual.isInitialized THEN <<>>
                       ELSE <<Log("INFO", "UI created successfully"),
                              Log("INFO", "Event handlers set up successfully"),
                              Log("INFO", "UI initialized successfully")>>)
                   \o <<Log("INFO", "Styles applied successfully"),
                        Log("INFO", "Settings applied to UI")>>
                   \o def.logs
                   \o <<Log("INFO", "Visual update completed successfully")>>,
                   <<>>)
    /\ UNCHANGED <<tz, calc, variant, clock, host, dtp, fs>>

\* The range UIManager.handleApplyFilter builds from the selector and the
\* custom inputs; NullRange when custom dates are missing.
UIManager_selectedDateRange(u, now) ==
    IF u.rangeSelector = Custom
    THEN IF u.customStartDate = EmptyValue \/ u.customEndDate = EmptyValue
         THEN NullRange
         ELSE createCustomRange(NewDateFromString(u.customStartDate),
                                NewDateFromString(u.customEndDate))
    ELSE calculateDateRange(u.rangeSelector, now)

\* A click on the Apply button: UIManager.handleApplyFilter, which calls
\* Visual.handleApplyFilter through onApplyFilter.  A disabled button
\* dispatches no click.
VisualApplyClick ==
    /\ variant = ImplVisual
    /\ ui.created
    /\ ~ui.applyDisabled
    /\ \E throws \in ThrowSets({"applyJsonFilter"}) :
        LET dateRange == UIManager_selectedDateRange(ui, clock)
        IN  IF dateRange = NullRange
            THEN /\ obs' = Obs("apply", <<>>, <<>>,
                               <<Log("WARNING", "Custom dates not provided")>>, <<>>)
                 /\ UNCHANGED visual
            ELSE IF ~isValidDateRange(dateRange)
            THEN /\ obs' = Obs("apply", <<>>, <<>>,
                               <<Log("ERROR", "Invalid date range selected")>>, <<>>)
                 /\ UNCHANGED visual
            ELSE LET r == Visual_handleApplyFilter(visual, ui, fm, host, dateRange, throws)
                 IN  /\ visual' = r.visual
                     /\ obs' = Obs("apply", r.calls, <<>>,
                                   r.logs \o <<Log("INFO", "Apply filter action triggered")>>,
                                   r.console)
    /\ UNCHANGED <<tz, calc, variant, clock, host, fm, ui, dtp, fs, lastUpdate>>

\* A click on the Clear button: UIManager.handleClearFilter, which calls
\* Visual.handleClearFilter through onClearFilter.
VisualClearClick ==
    /\ variant = ImplVisual
    /\ ui.created
    /\ \E throws \in ThrowSets({"applyJsonFilter"}) :
        LET cleared == FilterManager_clearFilters(host, throws)
            def == Visual_setDefaultDateRange(visual, ui, clock)
        IN  /\ visual' = def.visual
            /\ ui' = def.ui
            /\ obs' = Obs("clear", cleared.calls, <<>>,
                          def.logs \o <<Log("INFO", "Filters cleared and reset to default"),
                                        Log("INFO", "Clear filter action triggered")>>,
                          cleared.console)
    /\ UNCHANGED <<tz, calc, variant, clock, host, fm, dtp, fs, lastUpdate>>

\* The user picks an entry of the range selector.
VisualSelectRange ==
    /\ variant = ImplVisual
    /\ ui.created
    /\ \E rangeType \in SelectedRangeTypes :
        LET u1 == [ui EXCEPT !.rangeSelector = rangeType]
        IN  /\ ui' = u1
            /\ obs' = Obs("select", <<>>, <<>>,
                          UIManager_handleRangeSelectionChange(u1), <<>>)
    /\ UNCHANGED <<tz, calc, variant, clock, host, visual, fm, dtp, fs, lastUpdate>>

\* The user edits a custom date input; its change event runs
\* validateCustomDates.  The inputs are displayed only while the selector
\* shows the custom entry.
VisualEditCustomDate ==
    /\ variant = ImplVisual
    /\ ui.created
    /\ ui.rangeSelector = Custom
    /\ \E which \in {"start", "end"}, value \in CustomValues :
        LET u1 == IF which = "start"
                  THEN [ui EXCEPT !.customStartDate = value]
                  ELSE [ui EXCEPT !.customEndDate = value]
            r == UIManager_validateCustomDates(u1)
        IN  /\ ui' = r.ui
            /\ obs' = Obs("edit", <<>>, <<>>, r.logs, <<>>)
    /\ UNCHANGED <<tz, calc, variant, clock, host, visual, fm, dtp, fs, lastUpdate>>

\* setDateRange(dateRange): the programmatic entry
VisualSetDateRange ==
    /\ variant = ImplVisual
    /\ \E dateRange \in ProgrammaticRanges, throws \in ThrowSets({"applyJsonFilter"}) :
        IF isValidDateRange(dateRange)
        THEN LET r == Visual_handleApplyFilter(visual, ui, fm, host, dateRange, throws)
             IN  /\ visual' = r.visual
                 /\ obs' = Obs("setDateRange", r.calls, <<>>, r.logs, r.console)
        ELSE /\ UNCHANGED visual
             /\ obs' = Obs("setDateRange", <<>>, <<>>,
                    <<Log("ERROR", "Invalid date range provided for programmatic setting")>>,
                    <<>>)
    /\ UNCHANGED <<tz, calc, variant, clock, host, fm, ui, dtp, fs, lastUpdate>>

-----------------------------------------------------------------------------
(* FilterService and DateTimePickerVisual (unnamed/part_008, unnamed/part_009) *)

NullColumn == [bound |-> FALSE, displayName |-> EmptyString, queryName |-> EmptyString,
               minDate |-> NaN, maxDate |-> NaN]

Column(displayName, queryName, minDate, maxDate) ==
    [bound |-> TRUE, displayName |-> displayName, queryName |-> queryName,
     minDate |-> minDate, maxDate |-> maxDate]

\* new Date(1900, 0, 1)
WideWindowStartDay == 0
\* new Date(currentYear + 10, 11, 31), the clock of the model being in 2025
WideWindowEndDay == 49672

InitDtp ==
    [dateColumn |-> NullColumn, currentRange |-> LATEST_7_DAYS,
     startDateInput |-> EmptyValue, endDateInput |-> EmptyValue, timers |-> 0]

InitFs == [dateColumn |-> NullColumn]

\* formatDateForDirectQuery(date, isStartDate): the local calendar day with
\* T00:00:00.000 or T23:59:59.999 and no zone designator
formatDateForDirectQuery(date, isStartDate) ==
    DateValue(LocalDay(date), IF isStartDate THEN 0 ELSE TicksPerDay - 1, "")

\* DateInputsComponent.setDateRange(startDate, endDate): the input values; a
\* date input keeps "" when given a string that is no date
DateInputs_setDateRange(d, startDate, endDate) ==
    [d EXCEPT !.startDateInput = DateUtils_formatDate(startDate),
              !.endDateInput = DateUtils_formatDate(endDate)]

\* The host calls of a callback, made in order up to the first that throws.
\* steps: the calls the code would make; throws: the slots that throw.
FirstThrow(steps, throws) ==
    IF \E i \in 1..Len(steps) : steps[i].slot \in throws
    THEN CHOOSE i \in 1..Len(steps) :
             /\ steps[i].slot \in throws
             /\ \A j \in 1..(i - 1) : steps[j].slot \notin throws
    ELSE 0

RunCalls(steps, throws) ==
    LET k == FirstThrow(steps, throws)
        n == IF k = 0 THEN Len(steps) ELSE k
    IN  [calls |-> [i \in 1..n |->
                       HostCall(steps[i].api, steps[i].filter, steps[i].scope,
                                steps[i].action, i = k)],
         threw |-> k # 0]

Step(slot, api, filter, scope, action) ==
    [slot |-> slot, api |-> api, filter |-> filter, scope |-> scope, action |-> action]

(* unnamed/part_008 *)

\* DateUtils.parseDate(dateString): new Date(dateString)
DateUtils8_parseDate(dateString) == NewDateFromString(dateString)

\* FilterService.createAdvancedFilter(dateRange), the dateColumn being set
FilterService8_createAdvancedFilter(dateColumn, dateRange) ==
    LET queryName == OrElse(dateColumn.queryName, dateColumn.displayName)
        tableName == IF Includes(queryName, ".")
                     THEN SplitFirst(queryName, ".") ELSE Str("Table")
        columnName == IF Includes(queryName, ".")
                      THEN SplitSecond(queryName, ".") ELSE queryName
    IN  Filter("http://powerbi.com/product/schema#advanced", tableName, columnName,
               formatDateForDirectQuery(dateRange.startDate, TRUE),
               formatDateForDirectQuery(dateRange.endDate, FALSE), 6)

\* applyFilter with "if" in place of "else if": a host that has both
\* capabilities is called on both.
FilterService8_applyFilter_BothPaths(s, h, dateRange, throws) ==
    IF ~s.dateColumn.bound
    THEN [calls |-> <<>>,
          messages |-> <<Msg("error", "Unable to apply filter - add a date field")>>]
    ELSE IF ~h.createSelectionManager
    THEN [calls |-> <<>>,
          messages |-> <<Msg("error", "Filter service not available")>>]
    ELSE LET filter == FilterService8_createAdvancedFilter(s.dateColumn, dateRange)
             r == RunCalls(
                    <<Step("createSelectionManager", "createSelectionManager",
                           NullFilter, "", Undefined)>>
                    \o (IF h.filterManager
                        THEN <<Step("filterManager.applyFilter", "filterManager.applyFilter",
                                    filter, "", Undefined)>>
                        ELSE <<>>)
                    \o (IF h.applyJsonFilter
                        THEN <<Step("applyJsonFilter", "applyJsonFilter",
                                    filter, "general", 2)>>
                        ELSE <<>>),
                    throws)
         IN  [calls |-> r.calls,
              messages |->
                  IF r.threw
                  THEN <<Msg("error", "Error applying filter. DirectQuery may have limitations.")>>
                  ELSE IF h.filterManager \/ h.applyJsonFilter
                  THEN <<Msg("success", "Filter applied successfully!")>>
                  ELSE <<Msg("error", "Filter API not available for this data source")>>]

\* applyFilter with a try/catch of its own around the filter-manager call:
\* when that call throws, applyJsonFilter is called next.
FilterService8_applyFilter_Isolated(s, h, dateRange, throws) ==
    IF ~s.dateColumn.bound
    THEN [calls |-> <<>>,
          messages |-> <<Msg("error", "Unable to apply filter - add a date field")>>]
    ELSE IF ~h.createSelectionManager
    THEN [calls |-> <<>>,
          messages |-> <<Msg("error", "Filter service not available")>>]
    ELSE LET filter == FilterService8_createAdvancedFilter(s.dateColumn, dateRange)
             first == RunCalls(
                        <<Step("createSelectionManager", "createSelectionManager",
                               NullFilter, "", Undefined)>>
                        \o (IF h.filterManager
                            THEN <<Step("filterManager.applyFilter",
                                        "filterManager.applyFilter", filter, "", Undefined)>>
                            ELSE <<>>),
                        throws)
             managerFailed == /\ h.filterManager
                              /\ "createSelectionManager" \notin throws
                              /\ "filterManager.applyFilter" \in throws
             second == IF h.applyJsonFilter /\ (managerFailed \/ (~h.filterManager /\ ~first.threw))
                       THEN RunCalls(<<Step("applyJsonFilter", "applyJsonFilter",
                                            filter, "general", 2)>>, throws)
                       ELSE [calls |-> <<>>, threw |-> first.threw]
         IN  [calls |-> first.calls \o second.calls,
              messages |->
                  IF second.threw
                  THEN <<Msg("error", "Error applying filter. DirectQuery may have limitations.")>>
                  ELSE IF h.filterManager \/ h.applyJsonFilter
                  THEN <<Msg("success", "Filter applied successfully!")>>
                  ELSE <<Msg("error", "Filter API not available for this data source")>>]

\* FilterService.applyFilter(dateRange): the host calls and the messages
FilterService8_applyFilter(s, h, dateRange, throws) ==
    IF ~s.dateColumn.bound
    THEN [calls |-> <<>>,
          messages |-> <<Msg("error", "Unable to apply filter - add a date field")>>]
    ELSE IF ~h.createSelectionManager
    THEN [calls |-> <<>>,
          messages |-> <<Msg("error", "Filter service not available")>>]
    ELSE LET filter == FilterService8_createAdvancedFilter(s.dateColumn, dateRange)
             r == RunCalls(
                    <<Step("createSelectionManager", "createSelectionManager",
                           NullFilter, "", Undefined)>>
                    \o (IF h.filterManager
                        THEN <<Step("filterManager.applyFilter", "filterManager.applyFilter",
                                    filter, "", Undefined)>>
                        ELSE IF h.applyJsonFilter
                        THEN <<Step("applyJsonFilter", "applyJsonFilter",
                                    filter, "general", 2)>>
                        ELSE <<>>),
                    throws)
         IN  [calls |-> r.calls,
              messages |->
                  IF r.threw
                  THEN <<Msg("error", "Error applying filter. DirectQuery may have limitations.")>>
                  ELSE IF h.filterManager \/ h.applyJsonFilter
                  THEN <<Msg("success", "Filter applied successfully!")>>
                  ELSE <<Msg("error", "Filter API not available for this data source")>>]

\* FilterService.clearFilter()
FilterService8_clearFilter(h, throws) ==
    LET r == RunCalls(
               (IF h.filterManager
                THEN <<Step("filterManager.clear", "filterManager.clear",
                            NullFilter, "", Undefined)>>
                ELSE <<>>)
               \o (IF h.applyJsonFilter
                   THEN <<Step("applyJsonFilter", "applyJsonFilter",
                               NullFilter, "general", 1),
                          Step("applyJsonFilter.advanced", "applyJsonFilter",
                               NullFilter, "advanced", 1)>>
                   ELSE <<>>)
               \o (IF h.createSelectionManager
                   THEN <<Step("createSelectionManager", "createSelectionManager",
                               NullFilter, "", Undefined),
                          Step("selectionManager.clear", "selectionManager.clear",
                               NullFilter, "", Undefined)>>
                   ELSE <<>>),
               throws)
    IN  [calls |-> r.calls,
         messages |->
             IF r.threw
             THEN <<Msg("error", "Error clearing filters: ")>>
             ELSE IF h.filterManager \/ h.applyJsonFilter
             THEN <<Msg("success", "All filters cleared - showing full data")>>
             ELSE <<Msg("error", "Unable to clear filters - API not available")>>]

\* DateTimePickerVisual.handleRangeSelection(range)
DateTimePickerVisual8_handleRangeSelection(d, range, now) ==
    IF range # CUSTOM
    THEN LET dateRange == DateUtils_getDateRange(range, now, now)
         IN  DateInputs_setDateRange([d EXCEPT !.currentRange = range],
                                     dateRange.startDate, dateRange.endDate)
    ELSE [d EXCEPT !.currentRange = range]

\* DateTimePickerVisual.handleDateChange(startDate, endDate): the messages
DateTimePickerVisual8_handleDateChange(startDate, endDate) ==
    IF /\ startDate # EmptyValue
       /\ endDate # EmptyValue
       /\ ~DateUtils_isValidDateRange(DateUtils8_parseDate(startDate),
                                      DateUtils8_parseDate(endDate))
    THEN <<Msg("error", "Start date must be before end date")>>
    ELSE <<>>

\* applyFilter without the isValidDateRange test: the range is handed on
\* as read from the inputs.
DateTimePickerVisual8_applyFilter_NoGate(d, s, h, throws) ==
    FilterService8_applyFilter(s, h,
        [startDate |-> DateUtils8_parseDate(d.startDateInput),
         endDate |-> DateUtils8_parseDate(d.endDateInput)], throws)

\* DateTimePickerVisual.applyFilter()
DateTimePickerVisual8_applyFilter(d, s, h, throws) ==
    LET dateRange == [startDate |-> DateUtils8_parseDate(d.startDateInput),
                      endDate |-> DateUtils8_parseDate(d.endDateInput)]
    IN  IF ~DateUtils_isValidDateRange(dateRange.startDate, dateRange.endDate)
        THEN [calls |-> <<>>,
              messages |-> <<Msg("error", "Start date must be before end date")>>]
        ELSE FilterService8_applyFilter(s, h, dateRange, throws)

\* DateTimePickerVisual.updateDataColumnInfo(options): the dateColumn
DateTimePickerVisual8_updateDataColumnInfo(d, options) ==
    IF ~options.dataView THEN d.dateColumn
    ELSE IF options.categorical /\ Len(options.columns) > 0
    THEN LET source == options.columns[1]
         IN  Column(OrElse(source.displayName, Str("Unknown Field")),
                    source.queryName,
                    LocalMidnight(WideWindowStartDay),
                    LocalMidnight(WideWindowEndDay))
    ELSE NullColumn

\* update(options) of unnamed/part_008.  With a category it leaves a timer
\* that selects the last 7 days 100 ms later.
DirectQueryUpdate ==
    /\ variant = ImplDirectQuery
    /\ \E options \in Payloads(ImplDirectQuery) :
        LET column == DateTimePickerVisual8_updateDataColumnInfo(dtp, options)
            schedules == options.dataView /\ column.bound
        IN  /\ schedules => dtp.timers < MaxTimers
            /\ dtp' = [dtp EXCEPT !.dateColumn = column,
                                  !.timers = IF schedules THEN @ + 1 ELSE @]
            /\ fs' = IF options.dataView THEN [fs EXCEPT !.dateColumn = column] ELSE fs
            /\ lastUpdate' = Binding(options)
            /\ obs' = Obs("update", <<>>, <<>>, <<>>, <<>>)
    /\ UNCHANGED <<tz, calc, variant, clock, host, visual, fm, ui>>

\* The timer left by update fires: handleRangeSelection(LATEST_7_DAYS).
DirectQueryTimer ==
    /\ variant = ImplDirectQuery
    /\ dtp.timers > 0
    /\ dtp' = [DateTimePickerVisual8_handleRangeSelection(dtp, LATEST_7_DAYS, clock)
                  EXCEPT !.timers = @ - 1]
    /\ obs' = Obs("timer", <<>>, <<>>, <<>>, <<>>)
    /\ UNCHANGED <<tz, calc, variant, clock, host, visual, fm, ui, fs, lastUpdate>>

\* A click on a quick-select button.
DirectQuerySelectRange ==
    /\ variant = ImplDirectQuery
    /\ \E range \in SelectedRanges :
        dtp' = DateTimePickerVisual8_handleRangeSelection(dtp, range, clock)
    /\ obs' = Obs("select", <<>>, <<>>, <<>>, <<>>)
    /\ UNCHANGED <<tz, calc, variant, clock, host, visual, fm, ui, fs, lastUpdate>>

\* The user edits a date input; its change event runs handleDateChange.
DirectQueryEditDate ==
    /\ variant = ImplDirectQuery
    /\ \E which \in {"start", "end"}, value \in CustomValues :
        LET d1 == IF which = "start"
                  THEN [dtp EXCEPT !.startDateInput = value]
                  ELSE [dtp EXCEPT !.endDateInput = value]
        IN  /\ dtp' = d1
            /\ obs' = Obs("edit", <<>>,
                          DateTimePickerVisual8_handleDateChange(d1.startDateInput,
                                                                 d1.endDateInput),
                          <<>>, <<>>)
    /\ UNCHANGED <<tz, calc, variant, clock, host, visual, fm, ui, fs, lastUpdate>>

\* A click on Apply Filter.
DirectQueryApplyClick ==
    /\ variant = ImplDirectQuery
    /\ \E throws \in ThrowSets(ApplyCalls) :
        LET r == DateTimePickerVisual8_applyFilter(dtp, fs, host, throws)
        IN  obs' = Obs("apply", r.calls, r.messages, <<>>, <<>>)
    /\ UNCHANGED <<tz, calc, variant, clock, host, visual, fm, ui, dtp, fs, lastUpdate>>

\* A click on Show All Data.
DirectQueryClearClick ==
    /\ variant = ImplDirectQuery
    /\ \E throws \in ThrowSets(ClearCalls) :
        LET r == FilterService8_clearFilter(host, throws)
        IN  obs' = Obs("clear", r.calls, r.messages, <<>>, <<>>)
    /\ UNCHANGED <<tz, calc, variant, clock, host, visual, fm, ui, dtp, fs, lastUpdate>>

(* unnamed/part_009 *)

\* DateUtils.parseDate(input) of a date input's value: local midnight of the day
DateUtils9_parseDate(input) ==
    IF input = EmptyValue THEN NaN ELSE LocalMidnight(input)

\* DateUtils.parseDate(input) of a Date: local midnight of its local day
DateUtils9_parseDateObject(input) ==
    IF IsDate(input) THEN LocalMidnight(LocalDay(input)) ELSE NaN

\* DateUtils.findMinMaxDates(arr): null (Undefined) when no value is a date
RECURSIVE DateUtils9_findMinMaxDates(_)
DateUtils9_findMinMaxDates(arr) ==
    IF arr = <<>> THEN [minDate |-> Undefined, maxDate |-> Undefined]
    ELSE LET rest == DateUtils9_findMinMaxDates(SubSeq(arr, 1, Len(arr) - 1))
             dt == DateUtils9_parseDateObject(arr[Len(arr)])
         IN  IF ~IsDate(dt) THEN rest
             ELSE [minDate |-> IF rest.minDate = Undefined \/ dt < rest.minDate
                               THEN dt ELSE rest.minDate,
                   maxDate |-> IF rest.maxDate = Undefined \/ dt > rest.maxDate
                               THEN dt ELSE rest.maxDate]

\* FilterService.getTargetFromQueryName(qn, displayName)
FilterService9_getTargetFromQueryName(qn, displayName) ==
    IF qn = EmptyString
    THEN [table |-> Str("Table"), column |-> OrElse(displayName, Str("Date"))]
    ELSE IF Includes(qn, ".")
    THEN [table |-> SplitFirst(qn, "."),
          column |-> OrElse(SplitSecond(qn, "."), OrElse(displayName, Str("Date")))]
    ELSE IF BracketAt(qn) # 0
    THEN [table |-> SubSeq(qn, 1, BracketAt(qn) - 1),
          column |-> SubSeq(qn, BracketAt(qn) + 1, Len(qn) - 1)]
    ELSE [table |-> Str("Table"), column |-> OrElse(displayName, qn)]

\* createAdvancedFilter with table and column exchanged in the target
FilterService9_createAdvancedFilter_Exchanged(dateColumn, dateRange) ==
    LET targetObj == FilterService9_getTargetFromQueryName(dateColumn.queryName,
                                                           dateColumn.displayName)
    IN  Filter("http://powerbi.com/product/schema#advanced",
               targetObj.column, targetObj.table,
               formatDateForDirectQuery(dateRange.startDate, TRUE),
               formatDateForDirectQuery(dateRange.endDate, FALSE), 1)

\* FilterService.createAdvancedFilter(dateRange), the dateColumn being set:
\* new models.AdvancedFilter(target, "And", conditions)
FilterService9_createAdvancedFilter(dateColumn, dateRange) ==
    LET targetObj == FilterService9_getTargetFromQueryName(dateColumn.queryName,
                                                           dateColumn.displayName)
    IN  Filter("http://powerbi.com/product/schema#advanced",
               targetObj.table, targetObj.column,
               formatDateForDirectQuery(dateRange.startDate, TRUE),
               formatDateForDirectQuery(dateRange.endDate, FALSE), 1)

\* FilterService.applyFilter(dateRange); a host without applyJsonFilter makes
\* the call a TypeError, caught like a throwing call
FilterService9_applyFilter(s, h, dateRange, throws) ==
    IF ~s.dateColumn.bound
    THEN [calls |-> <<>>,
          messages |-> <<Msg("error", "Unable to apply filter - add a date field")>>]
    ELSE LET filter == FilterService9_createAdvancedFilter(s.dateColumn, dateRange)
             r == RunCalls(<<Step("applyJsonFilter", "applyJsonFilter", filter,
                                  "general", FilterAction_merge)>>, throws)
         IN  IF ~h.applyJsonFilter
             THEN [calls |-> <<>>, messages |-> <<Msg("error", "Error applying filter.")>>]
             ELSE [calls |-> r.calls,
                   messages |-> IF r.threw
                                THEN <<Msg("error", "Error applying filter.")>>
                                ELSE <<Msg("success", "Filter applied successfully!")>>]

\* FilterService.clearFilter()
FilterService9_clearFilter(h, throws) ==
    LET r == RunCalls(<<Step("applyJsonFilter", "applyJsonFilter", NullFilter,
                             "general", FilterAction_remove)>>, throws)
    IN  IF ~h.applyJsonFilter
        THEN [calls |-> <<>>, messages |-> <<Msg("error", "Error clearing filters.")>>]
        ELSE [calls |-> r.calls,
              messages |-> IF r.threw
                           THEN <<Msg("error", "Error clearing filters.")>>
                           ELSE <<Msg("success", "All filters cleared - showing full data")>>]

IsDateOrCategoryRole(c) == c.roles \cap {"date", "category"} # {}
IsDateType(c) == c.type \in {"dateTime", "date"}

\* cols.find(test), given test of each element: the index of the first
\* element that satisfies it, or 0
FirstWhere(tests) ==
    IF \E i \in 1..Len(tests) : tests[i]
    THEN CHOOSE i \in 1..Len(tests) : tests[i] /\ \A j \in 1..(i - 1) : ~tests[j]
    ELSE 0

\* DateTimePickerVisual.updateDataColumnInfo(options): the dateColumn
DateTimePickerVisual9_updateDataColumnInfo(options) ==
    LET cats == IF options.dataView /\ options.categorical THEN options.columns ELSE <<>>
        metaCols == IF options.dataView THEN options.columns ELSE <<>>
        catTests == [k \in 1..Len(cats) |->
                        IsDateOrCategoryRole(cats[k]) \/ IsDateType(cats[k])]
        metaTests == [k \in 1..Len(metaCols) |->
                         IsDateOrCategoryRole(metaCols[k]) /\ IsDateType(metaCols[k])]
        typeTests == [k \in 1..Len(metaCols) |-> IsDateType(metaCols[k])]
        farPast == LocalMidnight(WideWindowStartDay)
        farFuture == LocalMidnight(WideWindowEndDay)
    IN  IF Len(cats) > 0
        THEN LET i == FirstWhere(catTests)
                 cat == IF i # 0 THEN cats[i] ELSE cats[1]
                 mm == DateUtils9_findMinMaxDates(cat.values)
             IN  Column(OrElse(cat.displayName, Str("Date")), cat.queryName,
                        IF mm.minDate = Undefined THEN farPast ELSE mm.minDate,
                        IF mm.maxDate = Undefined THEN farFuture ELSE mm.maxDate)
        ELSE LET i == IF FirstWhere(metaTests) # 0
                      THEN FirstWhere(metaTests)
                      ELSE FirstWhere(typeTests)
             IN  IF i = 0 THEN NullColumn
                 ELSE LET metaDate == metaCols[i]
                          mm == DateUtils9_findMinMaxDates(metaDate.values)
                      IN  Column(OrElse(metaDate.displayName, Str("Date")),
                                 metaDate.queryName,
                                 IF mm.minDate = Undefined THEN farPast ELSE mm.minDate,
                                 IF mm.maxDate = Undefined THEN farFuture ELSE mm.maxDate)

\* DateTimePickerVisual.handleRangeSelection(range)
DateTimePickerVisual9_handleRangeSelection(d, range, now) ==
    IF range # CUSTOM
    THEN LET maxRef == IF d.dateColumn.bound THEN d.dateColumn.maxDate ELSE now
             r == DateUtils_getDateRange(range, maxRef, now)
         IN  DateInputs_setDateRange([d EXCEPT !.currentRange = range],
                                     r.startDate, r.endDate)
    ELSE [d EXCEPT !.currentRange = range]

\* DateTimePickerVisual.handleDateChange(start, end): the messages
DateTimePickerVisual9_handleDateChange(start, end) ==
    IF /\ start # EmptyValue
       /\ end # EmptyValue
       /\ ~DateUtils_isValidDateRange(DateUtils9_parseDate(start),
                                      DateUtils9_parseDate(end))
    THEN <<Msg("error", "Start date must be before end date")>>
    ELSE <<>>

\* DateTimePickerVisual.applyFilter()
DateTimePickerVisual9_applyFilter(d, s, h, throws) ==
    LET r == [startDate |-> DateUtils9_parseDate(d.startDateInput),
              endDate |-> DateUtils9_parseDate(d.endDateInput)]
    IN  IF ~DateUtils_isValidDateRange(r.startDate, r.endDate)
        THEN [calls |-> <<>>,
              messages |-> <<Msg("error", "Start date must be before end date")>>]
        ELSE FilterService9_applyFilter(s, h, r, throws)

\* update(options) of unnamed/part_009
ModelsUpdate ==
    /\ variant = ImplModels
    /\ \E options \in Payloads(ImplModels) :
        LET column == DateTimePickerVisual9_updateDataColumnInfo(options)
            d1 == [dtp EXCEPT !.dateColumn = column]
            initial == DateUtils_getDateRange(LATEST_7_DAYS, column.maxDate, clock)
        IN  /\ dtp' = IF column.bound
                      THEN DateInputs_setDateRange(d1, initial.startDate, initial.endDate)
                      ELSE d1
            /\ fs' = [fs EXCEPT !.dateColumn = column]
            /\ lastUpdate' = Binding(options)
            /\ obs' = Obs("update", <<>>, <<>>, <<>>, <<>>)
    /\ UNCHANGED <<tz, calc, variant, clock, host, visual, fm, ui>>

ModelsSelectRange ==
    /\ variant = ImplModels
    /\ \E range \in SelectedRanges :
        dtp' = DateTimePickerVisual9_handleRangeSelection(dtp, range, clock)
    /\ obs' = Obs("select", <<>>, <<>>, <<>>, <<>>)
    /\ UNCHANGED <<tz, calc, variant, clock, host, visual, fm, ui, fs, lastUpdate>>

ModelsEditDate ==
    /\ variant = ImplModels
    /\ \E which \in {"start", "end"}, value \in CustomValues :
        LET d1 == IF which = "start"
                  THEN [dtp EXCEPT !.startDateInput = value]
                  ELSE [dtp EXCEPT !.endDateInput = value]
        IN  /\ dtp' = d1
            /\ obs' = Obs("edit", <<>>,
                          DateTimePickerVisual9_handleDateChange(d1.startDateInput,
                                                                 d1.endDateInput),
                          <<>>, <<>>)
    /\ UNCHANGED <<tz, calc, variant, clock, host, visual, fm, ui, fs, lastUpdate>>

ModelsApplyClick ==
    /\ variant = ImplModels
    /\ \E throws \in ThrowSets({"applyJsonFilter"}) :
        LET r == DateTimePickerVisual9_applyFilter(dtp, fs, host, throws)
        IN  obs' = Obs("apply", r.calls, r.messages, <<>>, <<>>)
    /\ UNCHANGED <<tz, calc, variant, clock, host, visual, fm, ui, dtp, fs, lastUpdate>>

ModelsClearClick ==
    /\ variant = ImplModels
    /\ \E throws \in ThrowSets({"applyJsonFilter"}) :
        LET r == FilterService9_clearFilter(host, throws)
        IN  obs' = Obs("clear", r.calls, r.messages, <<>>, <<>>)
    /\ UNCHANGED <<tz, calc, variant, clock, host, visual, fm, ui, dtp, fs, lastUpdate>>

-----------------------------------------------------------------------------
(* The widget in its host *)

Tick ==
    /\ clock < ClockStart + MaxTicks
    /\ clock' = clock + 1
    /\ UNCHANGED <<tz, calc, variant, host, visual, fm, ui, dtp, fs, lastUpdate, obs>>

InitWidget ==
    /\ clock = ClockStart
    /\ visual = InitVisual
    /\ fm = InitFilterManager
    /\ ui = InitUI
    /\ dtp = InitDtp
    /\ fs = InitFs
    /\ lastUpdate = NoUpdate
    /\ obs = NoObs

NoCalc == [op |-> "none", a |-> NaN, b |-> NaN, n |-> 0,
           out |-> [startDate |-> NaN, endDate |-> NaN], valid |-> FALSE]

Init ==
    /\ tz \in TZs
    /\ calc = NoCalc
    /\ variant \in Variants
    /\ host \in HostsOf(variant)
    /\ InitWidget

Next ==
    \/ Tick
    \/ VisualUpdate
    \/ VisualApplyClick
    \/ VisualClearClick
    \/ VisualSelectRange
    \/ VisualEditCustomDate
    \/ VisualSetDateRange
    \/ DirectQueryUpdate
    \/ DirectQueryTimer
    \/ DirectQuerySelectRange
    \/ DirectQueryEditDate
    \/ DirectQueryApplyClick
    \/ DirectQueryClearClick
    \/ ModelsUpdate
    \/ ModelsSelectRange
    \/ ModelsEditDate
    \/ ModelsApplyClick
    \/ ModelsClearClick

Spec == Init /\ [][Next]_vars

-----------------------------------------------------------------------------
(* SpecCalc: the pure functions applied to inputs drawn from bounded sets *)

CalcDays == {Day_2024_12_31, Day_2025_03_01, Day_2025_03_10}

\* every instant of the input days, at every time of day
CalcInstants == {d * TicksPerDay + k : d \in CalcDays, k \in 0..(TicksPerDay - 1)}

PresetDays(rangeType) ==
    CASE rangeType = Last7Days -> 7
      [] rangeType = Last30Days -> 30
      [] rangeType = Last90Days -> 90
      [] OTHER -> 0

InitCalc ==
    /\ tz \in TZs
    /\ calc = NoCalc
    /\ variant = ImplVisual
    /\ host = [filterManager |-> FALSE, applyJsonFilter |-> TRUE,
               createSelectionManager |-> TRUE]
    /\ InitWidget

CalcCalculateDateRange ==
    \E now \in CalcInstants, rangeType \in DateRangeType :
        LET r == calculateDateRange(rangeType, now)
        IN  calc' = [op |-> "calculateDateRange", a |-> now, b |-> NaN,
                     n |-> PresetDays(rangeType),
                     out |-> [startDate |-> r.startDate, endDate |-> r.endDate],
                     valid |-> isValidDateRange(r)]

CalcGetDateRange ==
    \E now \in CalcInstants, maxDate \in CalcInstants \cup {Undefined},
       range \in PredefinedRange :
        LET r == DateUtils_getDateRange(range, maxDate, now)
        IN  calc' = [op |-> "getDateRange",
                     a |-> IF maxDate = Undefined THEN now ELSE maxDate,
                     b |-> NaN, n |-> range,
                     out |-> r,
                     valid |-> DateUtils_isValidDateRange(r.startDate, r.endDate)]

CalcCreateCustomRange ==
    \E a \in CalcInstants \cup {NaN}, b \in CalcInstants \cup {NaN} :
        LET r == createCustomRange(a, b)
        IN  calc' = [op |-> "createCustomRange", a |-> a, b |-> b, n |-> 0,
                     out |-> [startDate |-> r.startDate, endDate |-> r.endDate],
                     valid |-> isValidDateRange(r)]

NextCalc ==
    /\ \/ CalcCalculateDateRange
       \/ CalcGetDateRange
       \/ CalcCreateCustomRange
    /\ UNCHANGED <<tz, variant, clock, host, visual, fm, ui, dtp, fs, lastUpdate, obs>>

SpecCalc == InitCalc /\ [][NextCalc]_vars

-----------------------------------------------------------------------------
(* C1 *)

IsPresetResult == calc.op \in {"calculateDateRange", "getDateRange"} /\ calc.n > 0

-----------------------------------------------------------------------------
(* C2 *)

IsCustomResult == calc.op = "createCustomRange" /\ IsDate(calc.a) /\ IsDate(calc.b)

\* C2 as stated: validate(buildCustom(a, b)) is true exactly when a <= b, for
\* all pairs of date-times, pairs within one calendar day included.
C2_Original == IsCustomResult => (calc.valid <=> calc.a <= calc.b)

\* C2 as amended: validate(buildCustom(a, b)) is true exactly when the calendar
\* day of a is not after the calendar day of b (so a pair within one calendar
\* day is valid whatever its times of day); buildCustom puts the start at
\* 00:00:00.000 of a's day and the end at 23:59:59.999 of b's day and never
\* reorders the pair.
C2_CustomRange ==
    IsCustomResult =>
        /\ calc.valid <=> LocalDay(calc.a) <= LocalDay(calc.b)
        /\ calc.out.startDate = LocalMidnight(LocalDay(calc.a))
        /\ calc.out.endDate = LocalMidnight(LocalDay(calc.b)) + TicksPerDay - 1

\* A reversed pair of days (2025-03-10, 2025-03-01) fails validation.
C2_Witness ==
    /\ IsCustomResult
    /\ LocalDay(calc.a) = Day_2025_03_10
    /\ LocalDay(calc.b) = Day_2025_03_01
    /\ ~calc.valid

-----------------------------------------------------------------------------
(* What an Apply showed, read from the observation of the last callback *)

IsApply == obs.op = "apply"

\* the calls that hand a filter to the host
IsApplicationCall(c) == c.api \in {"filterManager.applyFilter", "applyJsonFilter"}
ApplicationCalls == SelectSeq(obs.hostCalls, IsApplicationCall)
CallsOf(api) == {i \in 1..Len(obs.hostCalls) : obs.hostCalls[i].api = api}

HasMessage(kind) == \E i \in 1..Len(obs.messages) : obs.messages[i].kind = kind
HasLog(text) == \E i \in 1..Len(obs.logs) : obs.logs[i].text = text

\* the widget reports the filter as applied
ReportsApplied == HasMessage("success") \/ HasLog("Filter applied")

\* a serialized date is not later than another
ValueLe(v, w) == v.day < w.day \/ (v.day = w.day /\ v.tod <= w.tod)

\* the dateTime columns of the most recent update
DateColumnsOf(binding) ==
    IF binding.dataView
    THEN {binding.columns[i] : i \in {k \in 1..Len(binding.columns) :
                                          binding.columns[k].type = "dateTime"}}
    ELSE {}

\* the table and column names a column's reference is made of
ReferenceParts(c) ==
    IF c = ColOrderDate THEN {Str("Sales"), Str("OrderDate")}
    ELSE IF c = ColShipDate THEN {Str("Orders"), Str("ShipDate")}
    ELSE {Str("Geo"), Str("Region")}

PartsOf(columns) == UNION {ReferenceParts(c) : c \in columns}
AllColumns == {ColOrderDate, ColShipDate, ColRegion}
ColumnsOf(binding) ==
    IF binding.dataView THEN {binding.columns[i] : i \in 1..Len(binding.columns)} ELSE {}

\* the names of the columns the most recent update did not deliver
StaleParts == PartsOf(AllColumns \ ColumnsOf(lastUpdate)) \ PartsOf(ColumnsOf(lastUpdate))

\* the range the Apply click reads from the controls is one the user reversed
ReversedInputs ==
    IF variant = ImplVisual
    THEN /\ ui.rangeSelector = Custom
         /\ ui.customStartDate # EmptyValue
         /\ ui.customEndDate # EmptyValue
         /\ ui.customStartDate > ui.customEndDate
    ELSE /\ dtp.startDateInput # EmptyValue
         /\ dtp.endDateInput # EmptyValue
         /\ dtp.startDateInput > dtp.endDateInput

\* the range the Apply click reads from the controls passes validation
ValidInputs ==
    IF variant = ImplVisual
    THEN /\ UIManager_selectedDateRange(ui, clock) # NullRange
         /\ isValidDateRange(UIManager_selectedDateRange(ui, clock))
    ELSE /\ dtp.startDateInput # EmptyValue
         /\ dtp.endDateInput # EmptyValue
         /\ dtp.startDateInput <= dtp.endDateInput

\* the stored binding the Apply works from
ColumnBound ==
    IF variant = ImplVisual
    THEN /\ fm.dateColumnTarget.present
         /\ fm.dateColumnName # EmptyString
         /\ fm.tableQualifiedName # EmptyString
    ELSE fs.dateColumn.bound

NoCallThrew == \A i \in 1..Len(obs.hostCalls) : ~obs.hostCalls[i].threw

-----------------------------------------------------------------------------
(* C3 *)

\* C3: an Apply made while the start date in the controls is later than the
\* end date hands no filter to the host and reports no success, and every
\* filter any callback hands to the host has its lower bound not later than
\* its upper bound: no path reaches the host around the validation.
C3_ReversedRangeNeverApplied ==
    /\ (IsApply /\ ReversedInputs) => (ApplicationCalls = <<>> /\ ~ReportsApplied)
    /\ \A i \in 1..Len(obs.hostCalls) :
          obs.hostCalls[i].filter # NullFilter =>
              ValueLe(obs.hostCalls[i].filter.conditions[1].value,
                      obs.hostCalls[i].filter.conditions[2].value)

\* Scenario B on a host that would take the filter: start 2025-03-10, end
\* 2025-03-01, a bound column, and the Apply ends in the validation message
C3_Witness ==
    /\ IsApply
    /\ variant = ImplDirectQuery
    /\ fs.dateColumn.bound
    /\ host.applyJsonFilter /\ host.createSelectionManager
    /\ dtp.startDateInput = Day_2025_03_10
    /\ dtp.endDateInput = Day_2025_03_01
    /\ obs.messages = <<Msg("error", "Start date must be before end date")>>
    /\ obs.hostCalls = <<>>

-----------------------------------------------------------------------------
(* C4 *)

\* C4: when the most recent update carried no date column, an Apply hands no
\* filter to the host and the widget does not report the filter as applied.
C4_NoColumnBound ==
    (IsApply /\ lastUpdate.seen /\ DateColumnsOf(lastUpdate) = {})
        => (ApplicationCalls = <<>> /\ ~ReportsApplied)

-----------------------------------------------------------------------------
(* C5 *)

\* C5: when the most recent update carried no date column, no Apply hands the
\* host a filter whose target names a table or column of an earlier update.
C5_NoStaleTarget ==
    (IsApply /\ lastUpdate.seen /\ DateColumnsOf(lastUpdate) = {})
        => \A i \in 1..Len(ApplicationCalls) :
              /\ ApplicationCalls[i].filter.target.table \notin StaleParts
              /\ ApplicationCalls[i].filter.target.column \notin StaleParts

-----------------------------------------------------------------------------
(* C6 *)

\* C6: when the most recent update delivered a date column, the target of
\* every filter an Apply hands to the host holds no table or column name of a
\* column that update did not deliver.
C6_TargetFromLatestUpdate ==
    (IsApply /\ DateColumnsOf(lastUpdate) # {})
        => \A i \in 1..Len(ApplicationCalls) :
              /\ ApplicationCalls[i].filter.target.table \notin StaleParts
              /\ ApplicationCalls[i].filter.target.column \notin StaleParts

-----------------------------------------------------------------------------
(* C7 *)

\* C7: on a host without filterManager and with applyJsonFilter, an Apply
\* with a bound column and a valid range, no host call throwing, calls
\* applyJsonFilter and reports success, whether or not the host has
\* createSelectionManager.
C7_JsonFallback ==
    (/\ IsApply
     /\ variant = ImplDirectQuery
     /\ ~host.filterManager
     /\ host.applyJsonFilter
     /\ ColumnBound
     /\ ValidInputs
     /\ NoCallThrew)
        => /\ CallsOf("applyJsonFilter") # {}
           /\ CallsOf("filterManager.applyFilter") = {}
           /\ HasMessage("success")

-----------------------------------------------------------------------------
(* C8 *)

-----------------------------------------------------------------------------
(* C9 *)

ManagerCallThrew ==
    \E i \in CallsOf("filterManager.applyFilter") : obs.hostCalls[i].threw

-----------------------------------------------------------------------------
(* C10 *)

\* C10: on a host with neither filterManager nor applyJsonFilter, an Apply
\* with a bound column and a valid range shows the user an error and does
\* not report the filter as applied.
C10_CapabilityUnavailable ==
    (/\ IsApply
     /\ ~host.filterManager
     /\ ~host.applyJsonFilter
     /\ ColumnBound
     /\ ValidInputs)
        => (HasMessage("error") /\ ~ReportsApplied)

-----------------------------------------------------------------------------
(* C11 *)

\* C11: when a host call throws during an Apply, the user is shown an error
\* and the Apply is not reported as applied.
C11_HostRejection ==
    (IsApply /\ ~NoCallThrew) => (HasMessage("error") /\ ~ReportsApplied)

-----------------------------------------------------------------------------
(* C12 *)

IsClear == obs.op = "clear"

\* a clearing call of this Clear returned without throwing
ClearingSucceeded ==
    \E i \in 1..Len(obs.hostCalls) :
        /\ obs.hostCalls[i].api \in {"filterManager.clear", "applyJsonFilter"}
        /\ ~obs.hostCalls[i].threw

\* C12: a Clear of FilterService (unnamed/part_008) in which at least one
\* clearing call succeeded ends with the success message and shows no error,
\* whatever other step of it throws.
C12_BestEffortClear ==
    (IsClear /\ variant = ImplDirectQuery /\ ClearingSucceeded)
        => (HasMessage("success") /\ ~HasMessage("error"))

-----------------------------------------------------------------------------
(* C13 *)

\* a removal of the given scope was attempted: applyJsonFilter(null, scope,
\* "filter", FilterAction.remove)
RemovalAttempted(scope) ==
    \E i \in CallsOf("applyJsonFilter") :
        /\ obs.hostCalls[i].filter = NullFilter
        /\ obs.hostCalls[i].scope = scope
        /\ obs.hostCalls[i].action = FilterAction_remove

\* C13: a Clear on a host with applyJsonFilter, no host call throwing,
\* attempts the removal on the general scope and on the advanced scope, and
\* resets the selection when the host has createSelectionManager.
C13_ClearsBothScopes ==
    (IsClear /\ host.applyJsonFilter /\ NoCallThrew)
        => /\ RemovalAttempted("general")
           /\ RemovalAttempted("advanced")
           /\ host.createSelectionManager => CallsOf("selectionManager.clear") # {}

-----------------------------------------------------------------------------
(* C14 *)

\* the DateRange the Apply handed to the filter construction
AppliedRange ==
    IF variant = ImplVisual
    THEN [startDate |-> visual.currentDateRange.startDate,
          endDate |-> visual.currentDateRange.endDate]
    ELSE IF variant = ImplDirectQuery
    THEN [startDate |-> DateUtils8_parseDate(dtp.startDateInput),
          endDate |-> DateUtils8_parseDate(dtp.endDateInput)]
    ELSE [startDate |-> DateUtils9_parseDate(dtp.startDateInput),
          endDate |-> DateUtils9_parseDate(dtp.endDateInput)]

\* C14: the two condition values of every filter an Apply hands to the host
\* are the local calendar day of startDate at 00:00:00.000 and the local
\* calendar day of endDate at 23:59:59.999, both without zone designator.
C14_LocalDayBoundaries ==
    IsApply =>
        \A i \in 1..Len(ApplicationCalls) :
            /\ ApplicationCalls[i].filter.conditions[1].value
                 = DateValue(LocalDay(AppliedRange.startDate), 0, "")
            /\ ApplicationCalls[i].filter.conditions[2].value
                 = DateValue(LocalDay(AppliedRange.endDate), TicksPerDay - 1, "")

-----------------------------------------------------------------------------
(* C15 *)

\* table and column a column's qualified reference names
ReferenceOf(c) ==
    IF c = ColOrderDate THEN [table |-> Str("Sales"), column |-> Str("OrderDate")]
    ELSE IF c = ColShipDate THEN [table |-> Str("Orders"), column |-> Str("ShipDate")]
    ELSE [table |-> Str("Geo"), column |-> Str("Region")]

\* table and column of the stored binding: the fields FilterManager keeps,
\* the names in the reference of the column FilterService keeps
BindingTarget ==
    IF variant = ImplVisual
    THEN [table |-> fm.tableQualifiedName, column |-> fm.dateColumnName]
    ELSE ReferenceOf(CHOOSE c \in AllColumns : c.queryName = fs.dateColumn.queryName)

-----------------------------------------------------------------------------
(* C16 *)

\* the filter built from nothing but the stored binding and the range applied
FreshDescriptor ==
    IF variant = ImplVisual
    THEN Filter("https://powerbi.com/product/schema#advanced",
                fm.tableQualifiedName, fm.dateColumnName,
                toISOString(AppliedRange.startDate),
                toISOString(AppliedRange.endDate), Undefined)
    ELSE IF variant = ImplDirectQuery
    THEN FilterService8_createAdvancedFilter(fs.dateColumn, AppliedRange)
    ELSE FilterService9_createAdvancedFilter(fs.dateColumn, AppliedRange)

-----------------------------------------------------------------------------
(* SpecParse: the parsing of qualified references, applied to references
   drawn from bounded sets of token sequences *)

MaxTokens == 5

ReferenceTokens == {"Sales", "OrderDate", ".", "[", "]"}

\* the references of at most MaxTokens tokens, the empty one included
QueryNames == UNION {[1..n -> ReferenceTokens] : n \in 0..MaxTokens}

DisplayNames == {EmptyString, Str("OrderDate"), Str("Order Date")}

\* a reference and a display name not parsed yet
Reference(qn, displayName) ==
    [op |-> "reference", qn |-> qn, displayName |-> displayName,
     target |-> [table |-> EmptyString, column |-> EmptyString]]

InitParse ==
    /\ tz = 0
    /\ calc \in {Reference(qn, displayName) :
                    qn \in QueryNames, displayName \in DisplayNames}
    /\ variant = ImplDirectQuery
    /\ host = [filterManager |-> FALSE, applyJsonFilter |-> TRUE,
               createSelectionManager |-> TRUE]
    /\ InitWidget

\* the target FilterService.createAdvancedFilter of unnamed/part_008 writes
\* for a stored column
ParseDirectQuery ==
    LET filter == FilterService8_createAdvancedFilter(
                      Column(calc.displayName, calc.qn, NaN, NaN),
                      [startDate |-> ClockStart, endDate |-> ClockStart])
    IN  calc' = [calc EXCEPT !.op = "createAdvancedFilter",
                             !.target = filter.target]

\* FilterService.getTargetFromQueryName of unnamed/part_009
ParseModels ==
    calc' = [calc EXCEPT !.op = "getTargetFromQueryName",
                         !.target = FilterService9_getTargetFromQueryName(
                                        calc.qn, calc.displayName)]

NextParse ==
    /\ \/ ParseDirectQuery
       \/ ParseModels
    /\ UNCHANGED <<tz, variant, clock, host, visual, fm, ui, dtp, fs, lastUpdate, obs>>

SpecParse == InitParse /\ [][NextParse]_vars

-----------------------------------------------------------------------------
(* C17 *)

IsParse == calc.op \in {"createAdvancedFilter", "getTargetFromQueryName"}

\* C17: "Sales.OrderDate" and "Sales[OrderDate]" both parse to table "Sales"
\* and column "OrderDate", and "OrderDate", which matches neither pattern,
\* parses to the default table label with the reference itself as the column.
C17_ReferenceParsing ==
    IsParse =>
        /\ calc.qn \in {<<"Sales", ".", "OrderDate">>, <<"Sales", "[", "OrderDate", "]">>}
             => calc.target = [table |-> Str("Sales"), column |-> Str("OrderDate")]
        /\ calc.qn = <<"OrderDate">>
             => calc.target = [table |-> Str("Table"), column |-> Str("OrderDate")]

-----------------------------------------------------------------------------
(* C18 *)

\* C18: in every reachable state the current date range of the widget is
\* either absent or has a start date that is not later than its end date.
C18_SelectionOrdered ==
    \/ visual.currentDateRange = NullRange
    \/ DateLe(visual.currentDateRange.startDate, visual.currentDateRange.endDate)

\* a reversed or undated range was handed to setDateRange while a range was
\* current
C18_Witness ==
    /\ obs.op = "setDateRange"
    /\ HasLog("Invalid date range provided for programmatic setting")
    /\ visual.currentDateRange # NullRange
    /\ visual.currentDateRange.type = Custom

-----------------------------------------------------------------------------
(* C19 *)

\* C19: a Clear calls the host's filter removal, where the host has it, and
\* leaves as current range the range computed for the default preset of the
\* formatting settings at the time of the click, whatever range was current
\* before.
C19_ClearRestoresDefault ==
    [][(variant = ImplVisual /\ clock' = clock /\ obs'.op = "clear")
          => /\ host.applyJsonFilter => RemovalAttempted("general")'
             /\ visual'.currentDateRange
                  = calculateDateRange(visual.formattingSettings, clock)]_vars

\* a Clear made with a custom range in the controls, the default preset being
\* the last seven days
C19_Witness ==
    /\ IsClear
    /\ variant = ImplVisual
    /\ visual.formattingSettings = Last7Days
    /\ ui.customStartDate # EmptyValue
    /\ ui.customEndDate # EmptyValue
    /\ RemovalAttempted("general")
    /\ visual.currentDateRange.type = Last7Days

-----------------------------------------------------------------------------
(* C20 *)

IsUpdate == obs.op = "update"

\* C20: after an update, the column FilterService is bound to is a column of
\* the update's payload whose declared type is a date type; a payload without
\* such a column leaves no binding.
C20_BindsDateColumnsOnly ==
    (IsUpdate /\ variant \in {ImplDirectQuery, ImplModels} /\ fs.dateColumn.bound)
        => \E c \in DateColumnsOf(lastUpdate) :
               c.queryName = fs.dateColumn.queryName

-----------------------------------------------------------------------------
(* SpecDiscovery: the column discovery of update(options), applied to
   payloads of every shape, the malformed ones included *)

MaxCategories == 2

\* a category delivered without its source descriptor
NoSourceCategory == [values |-> <<>>]

\* a date column without display name and without qualified reference
ColUnnamed ==
    [displayName |-> EmptyString,
     queryName   |-> EmptyString,
     type        |-> "dateTime",
     roles       |-> {},
     expr        |-> [present |-> FALSE, source |-> FALSE, entity |-> EmptyString],
     values      |-> <<>>]

\* a date column whose qualified reference has no table part
ColMalformed ==
    [displayName |-> Str("x"),
     queryName   |-> <<".", "x">>,
     type        |-> "date",
     roles       |-> {"date"},
     expr        |-> [present |-> TRUE, source |-> FALSE, entity |-> EmptyString],
     values      |-> <<NaN>>]

HasSource(c) == "displayName" \in DOMAIN c

SourcedColumns == {ColOrderDate, ColShipDate, ColRegion, ColUnnamed, ColMalformed}

\* the column lists of at most MaxCategories columns
ListsOf(columns) == UNION {[1..n -> columns] : n \in 0..MaxCategories}

\* dataViews missing; categories, of which any may lack its source; metadata
\* columns with table rows
DiscoveryPayloads ==
    {Payload(FALSE, FALSE, <<>>, Last7Days)}
    \cup {Payload(TRUE, TRUE, cols, Last7Days) :
             cols \in ListsOf(SourcedColumns \cup {NoSourceCategory})}
    \cup {Payload(TRUE, FALSE, cols, Last7Days) : cols \in ListsOf(SourcedColumns)}

\* how a call of update(options) ended: normally, or with the TypeError of
\* reading a property of undefined
Returned(column) == [threw |-> FALSE, dateColumn |-> column]
ThrewTypeError(column) == [threw |-> TRUE, dateColumn |-> column]

\* update(options) of unnamed/part_008: categories[0].source.displayName is
\* read without a test of source, outside any try block
DateTimePickerVisual8_update(d, options) ==
    IF /\ options.dataView
       /\ options.categorical
       /\ Len(options.columns) > 0
       /\ ~HasSource(options.columns[1])
    THEN ThrewTypeError(d.dateColumn)
    ELSE Returned(DateTimePickerVisual8_updateDataColumnInfo(d, options))

\* update(options) of unnamed/part_009: cats.find tests c?.source?.roles and
\* c?.source?.type, which a category without source fails; cat.source.displayName
\* of the category found, or of cats[0], is read without a test of source
DateTimePickerVisual9_update(d, options) ==
    LET cats == IF options.dataView /\ options.categorical THEN options.columns ELSE <<>>
        sourced == SelectSeq(cats, HasSource)
        found == \E k \in 1..Len(sourced) :
                     IsDateOrCategoryRole(sourced[k]) \/ IsDateType(sourced[k])
    IN  IF Len(cats) > 0 /\ ~found /\ ~HasSource(cats[1])
        THEN ThrewTypeError(d.dateColumn)
        ELSE IF Len(cats) > 0 /\ ~found
        THEN Returned(DateTimePickerVisual9_updateDataColumnInfo(
                          [options EXCEPT !.columns = <<cats[1]>>]))
        ELSE Returned(DateTimePickerVisual9_updateDataColumnInfo(
                          [options EXCEPT !.columns =
                               IF Len(cats) > 0 THEN sourced ELSE @]))

\* a payload update has not been called with yet
Delivered(options) ==
    [op |-> "payload", options |-> options, threw |-> FALSE, dateColumn |-> NullColumn]

InitDiscovery ==
    /\ tz = 0
    /\ calc \in {Delivered(options) : options \in DiscoveryPayloads}
    /\ variant = ImplDirectQuery
    /\ host = [filterManager |-> FALSE, applyJsonFilter |-> TRUE,
               createSelectionManager |-> TRUE]
    /\ InitWidget

DiscoverDirectQuery ==
    LET r == DateTimePickerVisual8_update(dtp, calc.options)
    IN  calc' = [calc EXCEPT !.op = "update8", !.threw = r.threw,
                             !.dateColumn = r.dateColumn]

DiscoverModels ==
    LET r == DateTimePickerVisual9_update(dtp, calc.options)
    IN  calc' = [calc EXCEPT !.op = "update9", !.threw = r.threw,
                             !.dateColumn = r.dateColumn]

NextDiscovery ==
    /\ \/ DiscoverDirectQuery
       \/ DiscoverModels
    /\ UNCHANGED <<tz, variant, clock, host, visual, fm, ui, dtp, fs, lastUpdate, obs>>

SpecDiscovery == InitDiscovery /\ [][NextDiscovery]_vars

-----------------------------------------------------------------------------
(* C21 *)

IsDiscovery == calc.op \in {"update8", "update9"}

\* C21: for every payload shape the update callback returns normally, with a
\* binding or with the null binding; no exception escapes to the host.
C21_DiscoveryNeverRaises ==
    IsDiscovery => ~calc.threw

-----------------------------------------------------------------------------
(* C22 *)

\* the selected preset and the two date inputs
Selection(d) == <<d.currentRange, d.startDateInput, d.endDateInput>>

\* C22: the selected preset and the start and end date inputs change only in
\* a step that is a host update or a user interaction, never in the step of a
\* timer callback.
C22_NoTimerDrivenSelection ==
    [][Selection(dtp') # Selection(dtp)
          => obs'.op \in {"update", "select", "edit", "apply", "clear"}]_vars

-----------------------------------------------------------------------------
(* C23 *)

\* the maximum date discovered for the bound column: FilterService keeps it
\* with the column; FilterManager keeps none, so it is the latest of the
\* values delivered with the column found
DiscoveredMax ==
    IF variant = ImplVisual
    THEN LET i == FindDateTimeColumn(lastUpdate.columns)
         IN  IF lastUpdate.dataView /\ i # 0 /\ ColumnBound
             THEN DateUtils9_findMinMaxDates(lastUpdate.columns[i].values).maxDate
             ELSE Undefined
    ELSE IF fs.dateColumn.bound THEN fs.dateColumn.maxDate ELSE Undefined

\* the calendar day the range shown by the widget ends on
SelectedEndDay ==
    IF variant = ImplVisual
    THEN LocalDay(visual.currentDateRange.endDate)
    ELSE dtp.endDateInput

\* C23: a host update that computes the default range while a binding with
\* maximum date M exists makes the range end on the calendar day of M.
C23_DefaultAnchoredToMaxDate ==
    [][(/\ obs'.op = "update"
        /\ \/ variant = ImplVisual /\ visual.currentDateRange = NullRange
                                   /\ visual'.currentDateRange # NullRange
           \/ variant = ImplModels /\ fs'.dateColumn.bound
        /\ DiscoveredMax' # Undefined)
          => SelectedEndDay' = LocalDay(DiscoveredMax')]_vars

-----------------------------------------------------------------------------
(* C24 *)

\* C24: getDateRange of the last 7 days selects the latest 7 calendar days
\* inclusive: it ends on the day of the latest date and starts 6 days before
\* it, 2024-12-25 to 2024-12-31 when the latest date is 2024-12-31.
C24_Latest7DaysInclusive ==
    (calc.op = "getDateRange" /\ calc.n = LATEST_7_DAYS)
        => /\ LocalDay(calc.out.endDate) = LocalDay(calc.a)
           /\ LocalDay(calc.out.startDate) = LocalDay(calc.a) - (LATEST_7_DAYS - 1)

-----------------------------------------------------------------------------
(* C25 *)

\* the widget holds a range, or the user has put a date in an input
RangeActive ==
    IF variant = ImplVisual
    THEN \/ visual.currentDateRange # NullRange
         \/ ui.customStartDate # EmptyValue
         \/ ui.customEndDate # EmptyValue
    ELSE dtp.startDateInput # EmptyValue \/ dtp.endDateInput # EmptyValue

\* the selected start and end dates
SelectedDates ==
    IF variant = ImplVisual
    THEN <<visual.currentDateRange.startDate, visual.currentDateRange.endDate,
           ui.customStartDate, ui.customEndDate>>
    ELSE <<dtp.startDateInput, dtp.endDateInput>>

\* C25: a host update made while a range is active leaves the selected start
\* and end dates as they are.
C25_UpdateKeepsActiveRange ==
    [][(/\ obs'.op = "update"
        /\ variant \in {ImplVisual, ImplModels}
        /\ RangeActive)
          => SelectedDates' = SelectedDates]_vars

-----------------------------------------------------------------------------
(* C26 *)

\* the text of s after its first ch
AfterFirst(s, ch) == SubSeq(s, IndexOf(s, ch) + 1, Len(s))

\* C26: of a reference that holds a ".", the table is the text before the
\* first "." and the column is all of the text after it, when there is any;
\* a reference of the form name[column] without "." gives name and column.
C26_SplitOnFirstDot ==
    IsParse =>
        /\ (Includes(calc.qn, ".") /\ AfterFirst(calc.qn, ".") # EmptyString)
             => /\ calc.target.table = SplitFirst(calc.qn, ".")
                /\ calc.target.column = AfterFirst(calc.qn, ".")
        /\ (~Includes(calc.qn, ".") /\ BracketAt(calc.qn) # 0)
             => /\ calc.target.table = SubSeq(calc.qn, 1, BracketAt(calc.qn) - 1)
                /\ calc.target.column
                     = SubSeq(calc.qn, BracketAt(calc.qn) + 1, Len(calc.qn) - 1)

-----------------------------------------------------------------------------
(* C27 *)

\* C27: for every qualified reference of a stored column, whose display name
\* both implementations keep non-empty, the target has a non-empty table name
\* and a non-empty column name.
C27_PlaceholderNames ==
    (IsParse /\ calc.displayName # EmptyString)
        => /\ calc.target.table # EmptyString
           /\ calc.target.column # EmptyString

-----------------------------------------------------------------------------
(* C28 *)

\* C28: whenever the range selector shows a preset other than the custom
\* entry, the Apply button is enabled.
C28_PresetEnablesApply ==
    (variant = ImplVisual /\ ui.created /\ ui.rangeSelector # Custom)
        => ~ui.applyDisabled

-----------------------------------------------------------------------------
(* C29 *)

\* C29: an Apply of the calendar days S and E of the date inputs carries
\* exactly S and E, in every zone: as the local days of the range Visual
\* stores, and as the days of the two condition values unnamed/part_008
\* hands to the host.
C29_CustomDaysPreserved ==
    IsApply =>
        /\ (/\ variant = ImplVisual
            /\ ui.rangeSelector = Custom
            /\ HasLog("Apply filter action triggered"))
             => /\ LocalDay(visual.currentDateRange.startDate) = ui.customStartDate
                /\ LocalDay(visual.currentDateRange.endDate) = ui.customEndDate
        /\ variant = ImplDirectQuery
             => \A i \in 1..Len(ApplicationCalls) :
                    /\ ApplicationCalls[i].filter.conditions[1].value.day
                         = dtp.startDateInput
                    /\ ApplicationCalls[i].filter.conditions[2].value.day
                         = dtp.endDateInput

-----------------------------------------------------------------------------
(* DebugLogger (src/services/DebugLogger.ts) and SpecLogger: the logger
   under every sequence of calls a caller can make *)

\* private maxLogs: number = 50
maxLogs == 50

\* the calls of logInfo, logWarning and logError made since the last
\* clearLogs, and how many of them may be warnings or errors
MaxAdds == 52
MaxNotInfo == 1

\* the entries of an array from position Len - n + 1, all of them when there
\* are no more than n: array.slice(-n)
SliceLast(array, n) ==
    IF Len(array) > n THEN SubSeq(array, Len(array) - n + 1, Len(array)) ELSE array

\* addLog keeping the oldest maxLogs entries: slice(0, maxLogs)
DebugLogger_addLog_KeepOldest(debugLogs, log) ==
    LET pushed == Append(debugLogs, log)
    IN  IF Len(pushed) > maxLogs THEN SubSeq(pushed, 1, maxLogs) ELSE pushed

\* addLog(log): the debugLogs afterwards
DebugLogger_addLog(debugLogs, log) ==
    LET pushed == Append(debugLogs, log)
    IN  IF Len(pushed) > maxLogs THEN SliceLast(pushed, maxLogs) ELSE pushed

\* getLogs(): [...this.debugLogs], a new array with the same entries.  alias
\* tells whether the array returned is the logger's own array object.
DebugLogger_getLogs(debugLogs) == [held |-> TRUE, alias |-> FALSE, array |-> debugLogs]

\* the caller holds no array of the logger
NoArray == [held |-> FALSE, alias |-> FALSE, array |-> <<>>]

\* the text of the n-th entry added since the last clearLogs
Entry(level, n) == [level |-> level, n |-> n]

\* new DebugLogger(); added is the record of the entries added since the last
\* clearLogs, returned the array a getLogs call handed to the caller
NewLogger == [op |-> "new", debugLogs |-> <<>>, added |-> <<>>, returned |-> NoArray]

NotInfo(added) == Len(SelectSeq(added, LAMBDA e : e.level # "INFO"))

InitLogger ==
    /\ tz = 0
    /\ calc = NewLogger
    /\ variant = ImplVisual
    /\ host = [filterManager |-> FALSE, applyJsonFilter |-> TRUE,
               createSelectionManager |-> TRUE]
    /\ InitWidget

\* logInfo, logWarning and logError differ in the level they write; the
\* caller lets go of an array got earlier
LoggerAdd(op, level) ==
    /\ Len(calc.added) < MaxAdds
    /\ level # "INFO" => NotInfo(calc.added) < MaxNotInfo
    /\ LET log == Entry(level, Len(calc.added) + 1)
       IN  calc' = [op |-> op,
                    debugLogs |-> DebugLogger_addLog(calc.debugLogs, log),
                    added |-> Append(calc.added, log),
                    returned |-> NoArray]

LoggerLogInfo == LoggerAdd("logInfo", "INFO")
LoggerLogWarning == LoggerAdd("logWarning", "WARNING")
LoggerLogError == LoggerAdd("logError", "ERROR")

\* clearLogs(): this.debugLogs = []
LoggerClearLogs ==
    calc' = [op |-> "clearLogs", debugLogs |-> <<>>, added |-> <<>>,
             returned |-> NoArray]

LoggerGetLogs ==
    calc' = [calc EXCEPT !.op = "getLogs",
                         !.returned = DebugLogger_getLogs(calc.debugLogs)]

\* The caller empties the array getLogs returned (array.length = 0): the
\* logger's own array is emptied with it when the two are one object.
LoggerCallerEmptiesArray ==
    /\ calc.returned.held
    /\ calc.returned.array # <<>>
    /\ calc' = [calc EXCEPT !.op = "empty",
                            !.returned.array = <<>>,
                            !.debugLogs = IF calc.returned.alias THEN <<>> ELSE @]

NextLogger ==
    /\ \/ LoggerLogInfo
       \/ LoggerLogWarning
       \/ LoggerLogError
       \/ LoggerClearLogs
       \/ LoggerGetLogs
       \/ LoggerCallerEmptiesArray
    /\ UNCHANGED <<tz, variant, clock, host, visual, fm, ui, dtp, fs, lastUpdate, obs>>

SpecLogger == InitLogger /\ [][NextLogger]_vars

-----------------------------------------------------------------------------
(* C30 *)

\* C30: the logger holds at most maxLogs entries, and they are the entries
\* added most recently since the last clearLogs, in the order they were
\* added, whatever the caller did to an array that getLogs returned.
C30_BoundedRecentLogs ==
    /\ Len(calc.debugLogs) <= maxLogs
    /\ calc.debugLogs = SliceLast(calc.added, maxLogs)

\* more than maxLogs entries were added, a warning early among them, and the
\* caller has emptied the array it got from getLogs
C30_Witness ==
    /\ calc.op = "empty"
    /\ Len(calc.added) > maxLogs
    /\ calc.added[1].level = "WARNING"
    /\ Len(calc.debugLogs) = maxLogs
    /\ calc.returned.array = <<>>

=============================================================================
